---------------------------- MODULE Spec2Model ----------------------------
(***************************************************************************)
(* A model of phc-sf-parse.c: the Base64 codec, the strict decimal parser  *)
(* and the Argon2i hash-string decoder and encoder.                        *)
(*                                                                         *)
(* C strings are sequences of byte values 1..255; reading one position     *)
(* past the end yields the terminating 0.  Byte buffers are sequences of   *)
(* byte values 0..255.  Values of the C types 'unsigned' and 'unsigned     *)
(* long' are kept at their width as little-endian sequences of 16-bit      *)
(* limbs, because they exceed the integers TLC computes with; all          *)
(* arithmetic on them wraps modulo 2^(16 * number of limbs) as in C.       *)
(* What the C implementation leaves to the build is a choice made once in  *)
(* Init: whether plain 'char' is signed, and whether 'unsigned long' has   *)
(* 32 or 64 bits.                                                          *)
(***************************************************************************)
EXTENDS Integers, Sequences, FiniteSets, TLC

VARIABLES
    char_signed,   \* the build: TRUE when plain char is a signed type
    ulong_limbs,   \* the build: 16-bit limbs in an unsigned long (2 or 4)
    op,            \* the last call made
    rec,           \* the argon2i_params the caller hands to the encoder
    kat_pp,        \* the argon2i_params the decoder writes
    kat_str,       \* the string last given to the decoder
    tmp,           \* the text in the buffer the encoder writes
    tmp_len,       \* the size of that buffer at the last call of the encoder
    ret,           \* the value the encoder or the decoder returned last
    tb,            \* the last call of to_base64: arguments and results
    fb,            \* the locals of from_base64 in its current or last call
    fsrc,          \* the string from_base64 reads
    fcap,          \* the capacity *dst_len with which it was called
    dd,            \* the last call of decode_decimal: argument and results
    chr            \* the last call of a character mapping: argument, result

(***************************************************************************)
(* Unsigned machine integers.                                              *)
(***************************************************************************)

\* One limb holds 16 bits.
LimbBase == 65536

\* Number of limbs of the type 'unsigned' (32 bits).
UIntLimbs == 2

\* The value 0 on w limbs.
UZero(w) == [i \in 1..w |-> 0]

\* The largest value on w limbs (UINT_MAX, ULONG_MAX).
UMax(w) == [i \in 1..w |-> LimbBase - 1]

\* Conversion of a non-negative integer (below 2^31) to an unsigned type
\* of w limbs.
UFromNat(n, w) ==
    [i \in 1..w |-> IF i = 1 THEN n % LimbBase
                    ELSE IF i = 2 THEN n \div LimbBase ELSE 0]

RECURSIVE UAddAt(_, _, _, _)
UAddAt(a, b, i, carry) ==
    IF i > Len(a) THEN << >>
    ELSE LET s == a[i] + b[i] + carry
         IN  <<s % LimbBase>> \o UAddAt(a, b, i + 1, s \div LimbBase)

\* a + b, wrapping.
UAdd(a, b) == UAddAt(a, b, 1, 0)

\* ~a
UNot(a) == [i \in 1..Len(a) |-> LimbBase - 1 - a[i]]

\* a - b, wrapping (two's complement: a + ~b + 1).
USub(a, b) == UAddAt(a, UNot(b), 1, 1)

\* -a, wrapping.
UNeg(a) == USub(UZero(Len(a)), a)

\* Conversion of a C int (possibly negative) to an unsigned type of w limbs.
UFromInt(n, w) == IF n >= 0 THEN UFromNat(n, w) ELSE UNeg(UFromNat(-n, w))

RECURSIVE UMulAt(_, _, _, _)
UMulAt(a, k, i, carry) ==
    IF i > Len(a) THEN << >>
    ELSE LET s == a[i] * k + carry
         IN  <<s % LimbBase>> \o UMulAt(a, k, i + 1, s \div LimbBase)

\* a * k for a small k (k <= 2^14), wrapping.
UMulSmall(a, k) == UMulAt(a, k, 1, 0)

\* Long division by a small d (1 <= d <= 2^15), from limb i down, rem
\* being the remainder of the limbs above: the quotient, the remainder.
RECURSIVE UDivAt(_, _, _, _)
UDivAt(a, d, i, rem) ==
    IF i = 0 THEN << >>
    ELSE Append(UDivAt(a, d, i - 1, (rem * LimbBase + a[i]) % d),
                (rem * LimbBase + a[i]) \div d)

RECURSIVE UModAt(_, _, _, _)
UModAt(a, d, i, rem) ==
    IF i = 0 THEN rem
    ELSE UModAt(a, d, i - 1, (rem * LimbBase + a[i]) % d)

UDivSmall(a, d) == UDivAt(a, d, Len(a), 0)
UModSmall(a, d) == UModAt(a, d, Len(a), 0)

Pow2(n) == 2 ^ n

\* a << n, wrapping.
RECURSIVE UShl(_, _)
UShl(a, n) == IF n > 14 THEN UShl(UMulSmall(a, Pow2(14)), n - 14)
              ELSE UMulSmall(a, Pow2(n))

\* a >> n
RECURSIVE UShr(_, _)
UShr(a, n) == IF n > 15 THEN UShr(UDivSmall(a, Pow2(15)), n - 15)
              ELSE UDivSmall(a, Pow2(n))

RECURSIVE BitAnd(_, _)
BitAnd(x, y) == IF x = 0 \/ y = 0 THEN 0
                ELSE (x % 2) * (y % 2) + 2 * BitAnd(x \div 2, y \div 2)

RECURSIVE BitXor(_, _)
BitXor(x, y) == IF x = 0 THEN y
                ELSE IF y = 0 THEN x
                ELSE ((x + y) % 2) + 2 * BitXor(x \div 2, y \div 2)

\* a & b, a ^ b, a | b
UAnd(a, b) == [i \in 1..Len(a) |-> BitAnd(a[i], b[i])]
UXor(a, b) == [i \in 1..Len(a) |-> BitXor(a[i], b[i])]
UOr(a, b)  == [i \in 1..Len(a) |-> a[i] + b[i] - BitAnd(a[i], b[i])]

RECURSIVE ULessAt(_, _, _)
ULessAt(a, b, i) ==
    IF i = 0 THEN FALSE
    ELSE IF a[i] # b[i] THEN a[i] < b[i]
    ELSE ULessAt(a, b, i - 1)

\* a < b
ULess(a, b) == ULessAt(a, b, Len(a))

\* The value of a as an integer, for values that take at most two limbs
\* and stay below 2^31.
UToNat(a) == IF Len(a) = 1 THEN a[1] ELSE a[1] + LimbBase * a[2]

(***************************************************************************)
(* Characters.  A character constant of the source such as 'A' is written  *)
(* Ord("A"), its ASCII code.                                               *)
(***************************************************************************)

\* The printable ASCII characters, codes 32 to 126 in order (the grave
\* accent, code 96, by name).
AsciiChars ==
    <<
      " ", "!", "\"", "#", "$", "%", "&", "'", "(", ")", "*", "+", ",", "-", ".", "/",
      "0", "1", "2", "3", "4", "5", "6", "7", "8", "9", ":", ";", "<", "=", ">", "?",
      "@", "A", "B", "C", "D", "E", "F", "G", "H", "I", "J", "K", "L", "M", "N", "O",
      "P", "Q", "R", "S", "T", "U", "V", "W", "X", "Y", "Z", "[", "\\", "]", "^", "_",
      "grave", "a", "b", "c", "d", "e", "f", "g", "h", "i", "j", "k", "l", "m", "n", "o",
      "p", "q", "r", "s", "t", "u", "v", "w", "x", "y", "z", "{", "|", "}", "~"
    >>

\* The code of each of them, and of one of them.
AsciiCode ==
    [ch \in {AsciiChars[i] : i \in 1..Len(AsciiChars)} |->
        31 + CHOOSE i \in 1..Len(AsciiChars) : AsciiChars[i] = ch]

Ord(ch) == AsciiCode[ch]

\* The C string (sequence of character codes) of a sequence of characters.
Str(chars) == [i \in 1..Len(chars) |-> Ord(chars[i])]

\* The value of the expression *p, of type char, for the byte b that p
\* points at: a byte of 128 or more is negative where char is signed.
CharToInt(b) == IF char_signed /\ b >= 128 THEN b - 256 ELSE b

\* The character of string s at position i (1-based); the terminating
\* zero at position Len(s) + 1.
ByteAt(s, i) == IF i <= Len(s) THEN s[i] ELSE 0

(***************************************************************************)
(* Constant-time comparisons and the Base64 character mappings.            *)
(***************************************************************************)

\* (unsigned)(n)
U(n) == UFromInt(n, UIntLimbs)

\* a & b and a | b for operands of which one is in 0..255 (the other may
\* be a negative int, converted to unsigned by the usual conversions).
CAnd(a, b) == UToNat(UAnd(U(a), U(b)))
COr(a, b) == UToNat(UOr(U(a), U(b)))

EQ(x, y) == BitXor(UToNat(UAnd(UShr(UNeg(UXor(U(x), U(y))), 8), U(255))), 255)
GT(x, y) == UToNat(UAnd(UShr(USub(U(y), U(x)), 8), U(255)))
GE(x, y) == BitXor(GT(y, x), 255)
LT(x, y) == GT(y, x)
LE(x, y) == GE(y, x)

\* Convert value x (0..63) to the corresponding Base64 character.
b64_byte_to_char(x) ==
    COr(COr(COr(COr(
        CAnd(LT(x, 26), x + Ord("A")),
        CAnd(CAnd(GE(x, 26), LT(x, 52)), x + (Ord("a") - 26))),
        CAnd(CAnd(GE(x, 52), LT(x, 62)), x + (Ord("0") - 52))),
        CAnd(EQ(x, 62), Ord("+"))),
        CAnd(EQ(x, 63), Ord("/")))

\* Convert character c (an int) to the corresponding 6-bit value.
b64_char_to_byte(c) ==
    LET x == COr(COr(COr(COr(
                 CAnd(CAnd(GE(c, Ord("A")), LE(c, Ord("Z"))), c - Ord("A")),
                 CAnd(CAnd(GE(c, Ord("a")), LE(c, Ord("z"))), c - (Ord("a") - 26))),
                 CAnd(CAnd(GE(c, Ord("0")), LE(c, Ord("9"))), c - (Ord("0") - 52))),
                 CAnd(EQ(c, Ord("+")), 62)),
                 CAnd(EQ(c, Ord("/")), 63))
    IN  COr(x, CAnd(EQ(x, 0), BitXor(EQ(c, Ord("A")), 255)))

\* The two mappings tabulated over the arguments the callers pass: a 6-bit
\* value, and an int converted from a char.
ByteToCharTable == [x \in 0..63 |-> b64_byte_to_char(x)]
CharToByteTable == [c \in -128..255 |-> b64_char_to_byte(c)]

(***************************************************************************)
(* Base64 encoding and decoding.                                           *)
(***************************************************************************)

\* (size_t)-1, the error value of to_base64.
SizeError == -1

\* The output length of to_base64 for src_len source bytes.
to_base64_olen(src_len) ==
    LET olen == (src_len \div 3) * 4
    IN  CASE src_len % 3 = 2 -> olen + 1 + 2
          [] src_len % 3 = 1 -> olen + 2
          [] OTHER -> olen

\* The inner loop of to_base64: while 6 bits or more are buffered, emit one
\* character.  The state st holds the locals acc, acc_len, the source bytes
\* read (buf), those left (src_len), and the text written to dst so far.
RECURSIVE to_base64_emit(_)
to_base64_emit(st) ==
    IF st.acc_len >= 6
    THEN LET n == st.acc_len - 6
         IN  to_base64_emit([st EXCEPT
                 !.acc_len = n,
                 !.dst = Append(st.dst,
                     ByteToCharTable[UToNat(UAnd(UShr(st.acc, n), U(63)))])])
    ELSE st

\* One iteration of the outer loop of to_base64 on the source bytes src.
to_base64_step(st, src) ==
    to_base64_emit([st EXCEPT
        !.src_len = st.src_len - 1,
        !.buf = st.buf + 1,
        !.acc = UAdd(UShl(st.acc, 8), U(src[st.buf + 1])),
        !.acc_len = st.acc_len + 8])

\* The outer loop of to_base64, while (src_len -- > 0), for at most n
\* iterations (run in two halves, which keeps the evaluation shallow).
RECURSIVE to_base64_loop(_, _, _)
to_base64_loop(st, src, n) ==
    IF st.src_len = 0 \/ n = 0 THEN st
    ELSE IF n = 1 THEN to_base64_step(st, src)
    ELSE to_base64_loop(to_base64_loop(st, src, n \div 2), src, n - n \div 2)

\* A variant of to_base64_flush that forgets the bits left in acc.
to_base64_flush_none(st) == st.dst

\* After the outer loop: the bits left in acc give one more character.
\* The text written to dst.
to_base64_flush(st) ==
    IF st.acc_len > 0
    THEN Append(st.dst,
             ByteToCharTable[UToNat(UAnd(UShl(st.acc, 6 - st.acc_len), U(63)))])
    ELSE st.dst

\* to_base64(dst, dst_len, src, src_len), src a byte sequence: the value
\* returned and the characters written to dst before the terminating zero
\* (nothing is written on error).
to_base64(dst_len, src) ==
    IF dst_len <= to_base64_olen(Len(src))
    THEN [ret |-> SizeError, dst |-> << >>, written |-> FALSE]
    ELSE [ret |-> to_base64_olen(Len(src)),
          dst |-> to_base64_flush(to_base64_loop(
                      [acc |-> U(0), acc_len |-> 0, buf |-> 0,
                       src_len |-> Len(src), dst |-> << >>],
                      src, Len(src))),
          written |-> TRUE]

\* The locals of from_base64 at entry: dst is the caller's buffer (of
\* dst_len bytes, with whatever it held), buf counts the bytes stored
\* through the pointer buf, src is the number of characters consumed.
from_base64_enter(dst, dst_len) ==
    [pc |-> "loop", dst |-> dst, dst_len |-> dst_len, buf |-> 0, src |-> 0,
     len |-> 0, acc |-> U(0), acc_len |-> 0]

\* *buf ++ = v.  A store past the end of the buffer is kept as a byte
\* appended to it, so that it shows.
StoreByte(st, v) ==
    [st EXCEPT !.dst = IF st.buf < Len(st.dst)
                       THEN [st.dst EXCEPT ![st.buf + 1] = v]
                       ELSE Append(st.dst, v),
               !.buf = st.buf + 1]

\* A variant of from_base64_store without the test of the capacity.
from_base64_store_unchecked(st) ==
    IF st.acc_len < 8 THEN st
    ELSE StoreByte([st EXCEPT !.acc_len = @ - 8, !.len = @ + 1],
                   UToNat(UAnd(UShr(st.acc, st.acc_len - 8), U(255))))

\* The second half of an iteration of the loop of from_base64: once 8 bits
\* or more are buffered, a byte is counted, and stored if the buffer has
\* room for it.
from_base64_store(st) ==
    IF st.acc_len < 8 THEN st
    ELSE IF st.len >= st.dst_len
         THEN [st EXCEPT !.acc_len = @ - 8, !.len = @ + 1, !.pc = "null"]
         ELSE StoreByte([st EXCEPT !.acc_len = @ - 8, !.len = @ + 1],
                        UToNat(UAnd(UShr(st.acc, st.acc_len - 8), U(255))))

\* The first half: d is the value of the character read; 0xFF ends the
\* loop, and another value is shifted into acc.
from_base64_read(st, d) ==
    IF d = 255 THEN [st EXCEPT !.pc = "break"]
    ELSE from_base64_store([st EXCEPT !.src = @ + 1,
                                      !.acc = UAdd(UShl(@, 6), U(d)),
                                      !.acc_len = @ + 6])

\* One iteration of the loop of from_base64, where *src is the byte b.
from_base64_step(st, b) == from_base64_read(st, CharToByteTable[CharToInt(b)])

\* A variant of from_base64_finish that does not write *dst_len.
from_base64_finish_keep(st) ==
    IF \/ st.acc_len > 4
       \/ UAnd(st.acc, USub(UShl(U(1), st.acc_len), U(1))) # U(0)
    THEN [st EXCEPT !.pc = "null"]
    ELSE [st EXCEPT !.pc = "ok"]

\* The check of the buffered bits after the loop, and the results.
from_base64_finish(st) ==
    IF \/ st.acc_len > 4
       \/ UAnd(st.acc, USub(UShl(U(1), st.acc_len), U(1))) # U(0)
    THEN [st EXCEPT !.pc = "null"]
    ELSE [st EXCEPT !.pc = "ok", !.dst_len = st.len]

\* The loop of from_base64 for at most n iterations (run in two halves,
\* which keeps the evaluation shallow), src pointing at first at position
\* pos of the string str.
RECURSIVE from_base64_loop(_, _, _, _)
from_base64_loop(st, str, pos, n) ==
    IF st.pc # "loop" \/ n = 0 THEN st
    ELSE IF n = 1 THEN from_base64_step(st, ByteAt(str, pos + st.src))
    ELSE from_base64_loop(from_base64_loop(st, str, pos, n \div 2),
                          str, pos, n - n \div 2)

\* What follows the loop of from_base64, left by a break or by a return.
from_base64_leave(st) == IF st.pc = "break" THEN from_base64_finish(st) ELSE st

\* from_base64(dst, &dst_len, src) where src points at position pos of the
\* string str: the final locals.  pc is "null" when NULL is returned, and
\* otherwise the pointer returned is position pos + src of str.  The loop
\* ends at the terminating zero at the latest.
from_base64(dst, dst_len, str, pos) ==
    from_base64_leave(from_base64_loop(from_base64_enter(dst, dst_len),
                                       str, pos, Len(str) + 2 - pos))

(***************************************************************************)
(* The strict decimal parser, and the decimal conversion of sprintf.       *)
(***************************************************************************)

\* Whether a * k and a + b wrap around, that is, whether the results do not
\* fit the limbs of a.
MulWraps(a, k) == UMulSmall(Append(a, 0), k)[Len(a) + 1] # 0
AddWraps(a, b) == UAdd(Append(a, 0), Append(b, 0))[Len(a) + 1] # 0

\* A variant of decode_decimal_step without the two tests that precede
\* the multiplication and the addition.
decode_decimal_step_unchecked(st, b, w) ==
    IF CharToInt(b) < Ord("0") \/ CharToInt(b) > Ord("9")
    THEN [st EXCEPT !.pc = "break"]
    ELSE [st EXCEPT
             !.acc = UAdd(UMulSmall(@, 10), UFromInt(CharToInt(b) - Ord("0"), w)),
             !.str = @ + 1,
             !.wrap = @ \/ MulWraps(st.acc, 10)
                        \/ AddWraps(UMulSmall(st.acc, 10),
                                    UFromInt(CharToInt(b) - Ord("0"), w))]

\* One iteration of the loop of decode_decimal, where *str is the byte b;
\* w is the number of limbs of an unsigned long.  st.str counts the
\* characters consumed, and st.wrap records whether an operation on acc
\* wrapped around.
decode_decimal_step(st, b, w) ==
    LET c == CharToInt(b)
    IN  IF c < Ord("0") \/ c > Ord("9") THEN [st EXCEPT !.pc = "break"]
        ELSE IF ULess(UDivSmall(UMax(w), 10), st.acc)
             THEN [st EXCEPT !.pc = "null"]
        ELSE LET acc10 == UMulSmall(st.acc, 10)
                 digit == UFromInt(c - Ord("0"), w)
             IN  IF ULess(USub(UMax(w), acc10), digit)
                 THEN [st EXCEPT !.pc = "null", !.acc = acc10,
                                 !.wrap = @ \/ MulWraps(st.acc, 10)]
                 ELSE [st EXCEPT !.acc = UAdd(acc10, digit),
                                 !.str = st.str + 1,
                                 !.wrap = @ \/ MulWraps(st.acc, 10)
                                            \/ AddWraps(acc10, digit)]

\* The loop of decode_decimal for at most n iterations, str pointing at
\* first at position pos of the string s.
RECURSIVE decode_decimal_loop(_, _, _, _, _)
decode_decimal_loop(st, s, pos, w, n) ==
    IF st.pc # "loop" \/ n = 0 THEN st
    ELSE IF n = 1 THEN decode_decimal_step(st, ByteAt(s, pos + st.str), w)
    ELSE decode_decimal_loop(decode_decimal_loop(st, s, pos, w, n \div 2),
                             s, pos, w, n - n \div 2)

\* What follows the loop of decode_decimal: the checks of the digit run,
\* orig pointing at position pos of the string s.
decode_decimal_leave(st, s, pos, w) ==
    IF \/ st.pc = "null"
       \/ st.str = 0
       \/ (ByteAt(s, pos) = Ord("0") /\ st.str # 1)
    THEN [ret |-> FALSE, str |-> st.str, v |-> UZero(w), wrap |-> st.wrap]
    ELSE [ret |-> TRUE, str |-> st.str, v |-> st.acc, wrap |-> st.wrap]

\* decode_decimal(str, &v) where str points at position pos of the string
\* s: ret is FALSE when NULL is returned; otherwise the pointer returned is
\* position pos + str of s and v is the value written to *v.
decode_decimal(s, pos, w) ==
    decode_decimal_leave(
        decode_decimal_loop([pc |-> "loop", str |-> 0, acc |-> UZero(w),
                             wrap |-> FALSE],
                            s, pos, w, Len(s) + 2 - pos),
        s, pos, w)

RECURSIVE DecimalDigits(_)
DecimalDigits(a) ==
    IF a = UZero(Len(a)) THEN << >>
    ELSE Append(DecimalDigits(UDivSmall(a, 10)), Ord("0") + UModSmall(a, 10))

\* The text sprintf(tmp, "%lu", a) writes.
sprintf_lu(a) == IF a = UZero(Len(a)) THEN <<Ord("0")>> ELSE DecimalDigits(a)

(***************************************************************************)
(* The Argon2i hash string decoder.                                        *)
(***************************************************************************)

\* The capacities of the binary fields of argon2i_params.
KeyIdSize == 8
AssociatedDataSize == 32
SaltSize == 48
OutputSize == 64

\* The least lengths of a salt and of an output that the decoder accepts.
SaltMin == 8
OutputMin == 12

\* The literals of the format.
LitArgon2i == Str(<<"$", "a", "r", "g", "o", "n", "2", "i">>)
LitM == Str(<<"$", "m", "=">>)
LitEncM == Str(<<"$", "a", "r", "g", "o", "n", "2", "i", "$", "m", "=">>)
LitT == Str(<<",", "t", "=">>)
LitP == Str(<<",", "p", "=">>)
LitKeyid == Str(<<",", "k", "e", "y", "i", "d", "=">>)
LitData == Str(<<",", "d", "a", "t", "a", "=">>)
LitDollar == Str(<<"$">>)

\* strncmp(str, prefix, strlen(prefix)) == 0, str at position pos of s.
HasPrefix(s, pos, prefix) ==
    \A i \in 1..Len(prefix) : ByteAt(s, pos + i - 1) = prefix[i]

\* The decoder's state st: the structure pp, the string s, the position
\* str in it, and pc: "run", or "ret0" / "ret1" once it has returned.

\* if (cond) return 0;
ReturnZeroIf(st, cond) ==
    IF st.pc = "run" /\ cond THEN [st EXCEPT !.pc = "ret0"] ELSE st

\* if (*str == 0) return 1;
ReturnOneAtEnd(st) ==
    IF st.pc = "run" /\ ByteAt(st.s, st.str) = 0
    THEN [st EXCEPT !.pc = "ret1"] ELSE st

CC(st, prefix) ==
    IF st.pc # "run" THEN st
    ELSE IF ~HasPrefix(st.s, st.str, prefix) THEN [st EXCEPT !.pc = "ret0"]
    ELSE [st EXCEPT !.str = st.str + Len(prefix)]

\* DECIMAL(pp->x) for the field named x.
DECIMAL_set(st, x, r) ==
    IF ~r.ret THEN [st EXCEPT !.pc = "ret0"]
    ELSE [st EXCEPT !.str = st.str + r.str, !.pp[x] = r.v]

DECIMAL(st, x) ==
    IF st.pc # "run" THEN st
    ELSE DECIMAL_set(st, x, decode_decimal(st.s, st.str, ulong_limbs))

\* BIN(pp->buf, max_len, pp->len) for the fields named buf and len.
\* from_base64 writes the buffer also when it fails.
BIN_set(st, buf, len, r) ==
    IF r.pc = "null"
    THEN [st EXCEPT !.pc = "ret0", !.pp[buf] = r.dst]
    ELSE [st EXCEPT !.str = st.str + r.src,
                    !.pp[buf] = r.dst, !.pp[len] = r.dst_len]

BIN(st, buf, max_len, len) ==
    IF st.pc # "run" THEN st
    ELSE BIN_set(st, buf, len, from_base64(st.pp[buf], max_len, st.s, st.str))

\* CC_opt(prefix, BIN(pp->buf, max_len, pp->len))
CC_opt(st, prefix, buf, max_len, len) ==
    IF st.pc = "run" /\ HasPrefix(st.s, st.str, prefix)
    THEN BIN([st EXCEPT !.str = st.str + Len(prefix)], buf, max_len, len)
    ELSE st

\* A variant of ParamsOutOfRange without the test of m against 8 * p.
ParamsOutOfRange_no_ratio(pp, w) ==
    \/ ULess(pp.m, UFromNat(1, w)) \/ ULess(UFromNat(3, w), UShr(pp.m, 30))
    \/ ULess(pp.t, UFromNat(1, w)) \/ ULess(UFromNat(3, w), UShr(pp.t, 30))
    \/ ULess(pp.p, UFromNat(1, w)) \/ ULess(UFromNat(255, w), pp.p)

\* The checks of m, t and p; w is the number of limbs of an unsigned long.
ParamsOutOfRange(pp, w) ==
    \/ ULess(pp.m, UFromNat(1, w)) \/ ULess(UFromNat(3, w), UShr(pp.m, 30))
    \/ ULess(pp.t, UFromNat(1, w)) \/ ULess(UFromNat(3, w), UShr(pp.t, 30))
    \/ ULess(pp.p, UFromNat(1, w)) \/ ULess(UFromNat(255, w), pp.p)
    \/ ULess(pp.m, UShl(pp.p, 3))

\* A variant of ClearLengths that leaves the lengths as they are.
KeepLengths(pp) == pp

\* The four lengths are zeroed before anything is read.
ClearLengths(pp) ==
    [pp EXCEPT !.key_id_len = 0, !.associated_data_len = 0,
               !.salt_len = 0, !.output_len = 0]

\* The decoder's state at entry.
decode_enter(pp, str) ==
    [pc |-> "run", s |-> str, str |-> 1, pp |-> ClearLengths(pp)]

\* The prefix and the three cost parameters.
DecodeCosts(st) ==
    DECIMAL(CC(DECIMAL(CC(DECIMAL(CC(CC(st,
        LitArgon2i), LitM), "m"), LitT), "t"), LitP), "p")

\* The range checks of the cost parameters.
DecodeRanges(st) == ReturnZeroIf(st, ParamsOutOfRange(st.pp, ulong_limbs))

\* The optional key identifier and associated data, then the first place
\* where the string may end.
DecodeOptions(st) ==
    ReturnOneAtEnd(
        CC_opt(CC_opt(st, LitKeyid, "key_id", KeyIdSize, "key_id_len"),
               LitData, "associated_data", AssociatedDataSize,
               "associated_data_len"))

\* if (pp->salt_len < 8) return 0; and then the second place where the
\* string may end.
SaltCheck(st) == ReturnOneAtEnd(ReturnZeroIf(st, st.pp.salt_len < SaltMin))

\* The salt.
DecodeSalt(st) == SaltCheck(BIN(CC(st, LitDollar), "salt", SaltSize, "salt_len"))

\* if (pp->output_len < 12) return 0;
OutputCheck(st) == ReturnZeroIf(st, st.pp.output_len < OutputMin)

\* The output.
DecodeOutput(st) ==
    OutputCheck(BIN(CC(st, LitDollar), "output", OutputSize, "output_len"))

\* The structure as the call leaves it and the value returned, at the
\* last statement, return *str == 0, where no earlier return was taken.
decode_return(st) ==
    [pp |-> st.pp,
     ret |-> IF st.pc = "run"
             THEN (IF ByteAt(st.s, st.str) = 0 THEN 1 ELSE 0)
             ELSE (IF st.pc = "ret1" THEN 1 ELSE 0)]

\* argon2i_decode_string(pp, str)
argon2i_decode_string(pp, str) ==
    decode_return(DecodeOutput(DecodeSalt(DecodeOptions(DecodeRanges(
        DecodeCosts(decode_enter(pp, str)))))))

(***************************************************************************)
(* The Argon2i hash string encoder.                                        *)
(***************************************************************************)

\* The encoder's state st: the text written to dst so far (each write ends
\* it with a zero), the capacity dst_len left, and pc: "run" or "ret0".

\* A variant of SS that accepts a text as long as the room left.
SS_exact_fit(st, str) ==
    IF st.pc # "run" THEN st
    ELSE IF Len(str) > st.dst_len THEN [st EXCEPT !.pc = "ret0"]
    ELSE [st EXCEPT !.dst = st.dst \o str, !.dst_len = st.dst_len - Len(str)]

SS(st, str) ==
    IF st.pc # "run" THEN st
    ELSE IF Len(str) >= st.dst_len THEN [st EXCEPT !.pc = "ret0"]
    ELSE [st EXCEPT !.dst = st.dst \o str, !.dst_len = st.dst_len - Len(str)]

SX(st, x) == SS(st, sprintf_lu(x))

SB_advance(st, r) ==
    IF r.ret = SizeError THEN [st EXCEPT !.pc = "ret0"]
    ELSE [st EXCEPT !.dst = st.dst \o r.dst, !.dst_len = st.dst_len - r.ret]

SB(st, buf, len) ==
    IF st.pc # "run" THEN st
    ELSE SB_advance(st, to_base64(st.dst_len, SubSeq(buf, 1, len)))

\* The prefix and the three cost parameters.
EncodeCosts(st, pp) ==
    SX(SS(SX(SS(SX(SS(st, LitEncM), pp.m), LitT), pp.t), LitP), pp.p)

\* The key identifier and the associated data, each written when its
\* length is not 0.
EncodeKeyId(st, pp) ==
    IF pp.key_id_len > 0
    THEN SB(SS(st, LitKeyid), pp.key_id, pp.key_id_len) ELSE st

EncodeData(st, pp) ==
    IF pp.associated_data_len > 0
    THEN SB(SS(st, LitData), pp.associated_data, pp.associated_data_len)
    ELSE st

\* if (pp->salt_len == 0) return 1; and then the salt.
EncodeSalt(st, pp) ==
    IF pp.salt_len = 0 THEN st
    ELSE SB(SS(st, LitDollar), pp.salt, pp.salt_len)

\* if (pp->output_len == 0) return 1; and then the output, both reached
\* only when the salt was written.
EncodeOutput(st, pp) ==
    IF pp.salt_len = 0 \/ pp.output_len = 0 THEN st
    ELSE SB(SS(st, LitDollar), pp.output, pp.output_len)

\* The value returned and the text in dst (what was written before a
\* failure stays).
encode_return(st) == [ret |-> IF st.pc = "run" THEN 1 ELSE 0, dst |-> st.dst]

\* argon2i_encode_string(dst, dst_len, pp)
argon2i_encode_string(dst_len, pp) ==
    encode_return(EncodeOutput(EncodeSalt(EncodeData(EncodeKeyId(EncodeCosts(
        [pc |-> "run", dst |-> << >>, dst_len |-> dst_len],
        pp), pp), pp), pp), pp))

(***************************************************************************)
(* The inputs of the calls, drawn from bounded sets.                       *)
(***************************************************************************)

\* Byte i of fill pattern k: pattern 0 is all zero, pattern 1 all 0xFF, the
\* others run through the byte values.
FillByte(k, i) ==
    CASE k = 0 -> 0
      [] k = 1 -> 255
      [] OTHER -> (k * 101 + i * (2 * k + 25)) % 256

\* The number of fill patterns used.
NumFills == 3

\* n bytes of pattern k, from byte off + 1 of the pattern on.
Bytes(k, n, off) == [i \in 1..n |-> FillByte(k, i + off)]

\* An unsigned long of w limbs from its two low limbs.
UL(lo, hi, w) == [i \in 1..w |-> IF i = 1 THEN lo ELSE IF i = 2 THEN hi ELSE 0]

\* Triples m, t, p of records: the first four within the ranges of the
\* format, the others not.
Costs(w) ==
    { <<UL(8, 0, w), UL(1, 0, w), UL(1, 0, w)>>,
      <<UL(120, 0, w), UL(5000, 0, w), UL(2, 0, w)>>,
      <<UL(2040, 0, w), UL(65535, 65535, w), UL(255, 0, w)>>,
      <<UL(65535, 65535, w), UL(0, 1, w), UL(1, 0, w)>>,
      <<UL(0, 0, w), UL(0, 0, w), UL(0, 0, w)>>,
      <<UL(15, 0, w), UL(5000, 0, w), UL(2, 0, w)>>,
      <<UMax(w), UMax(w), UMax(w)>> }

KeyIdLens == {0, KeyIdSize}
AssociatedDataLens == {0, AssociatedDataSize}
SaltLens == {0, SaltMin, SaltSize}
OutputLens == {0, OutputMin, OutputSize}

\* A record: costs c, fill pattern k, and the lengths of the four fields.
\* The buffers are filled to their capacity.
Record(c, k, kl, al, sl, ol) ==
    [m |-> c[1], t |-> c[2], p |-> c[3],
     key_id |-> Bytes(k, KeyIdSize, 0), key_id_len |-> kl,
     associated_data |-> Bytes(k, AssociatedDataSize, 8),
     associated_data_len |-> al,
     salt |-> Bytes(k, SaltSize, 40), salt_len |-> sl,
     output |-> Bytes(k, OutputSize, 88), output_len |-> ol]

\* The records a caller hands to the encoder: every field length is within
\* its capacity.  The lengths vary under one triple of costs, and the
\* costs and the fill patterns under full and under empty fields.
Records(w) ==
    { Record(<<UL(120, 0, w), UL(5000, 0, w), UL(2, 0, w)>>,
             NumFills - 1, kl, al, sl, ol) :
      kl \in KeyIdLens, al \in AssociatedDataLens,
      sl \in SaltLens, ol \in OutputLens }
    \cup { Record(c, k, KeyIdSize, AssociatedDataSize, SaltSize, OutputSize) :
            c \in Costs(w), k \in 0..(NumFills - 1) }
    \cup { Record(c, 0, 0, 0, 0, 0) : c \in Costs(w) }

\* An argon2i_params object that was never assigned: its contents are
\* indeterminate.  Such an object is shown with all its bytes 0xEE (every
\* length field then exceeds the capacity of its buffer).
Indeterminate(w) ==
    [m |-> [i \in 1..w |-> 61166], t |-> [i \in 1..w |-> 61166],
     p |-> [i \in 1..w |-> 61166],
     key_id |-> [i \in 1..KeyIdSize |-> 238], key_id_len |-> 61166,
     associated_data |-> [i \in 1..AssociatedDataSize |-> 238],
     associated_data_len |-> 61166,
     salt |-> [i \in 1..SaltSize |-> 238], salt_len |-> 61166,
     output |-> [i \in 1..OutputSize |-> 238], output_len |-> 61166]

\* The size of the text buffer of the test program.
DstSize == 300

\* The slack around the exact size with which the encoder is called.
MaxSlack == 1

\* Decimal texts for m, t and p.
MTexts ==
    { Str(<<"1", "2", "0">>), Str(<<"1", "5">>), Str(<<"1", "6">>), Str(<<"0">>), Str(<<"0", "1", "2", "0">>), << >>, Str(<<"2", "0", "4", "0">>), Str(<<"2", "0", "3", "9">>),
      Str(<<"8">>), Str(<<"7">>), Str(<<"4", "2", "9", "4", "9", "6", "7", "2", "9", "5">>), Str(<<"4", "2", "9", "4", "9", "6", "7", "2", "9", "6">>),
      Str(<<"1", "8", "4", "4", "6", "7", "4", "4", "0", "7", "3", "7", "0", "9", "5", "5", "1", "6", "1", "6">>) }
TTexts == { Str(<<"5", "0", "0", "0">>), Str(<<"0">>), Str(<<"1">>), Str(<<"0", "5", "0", "0", "0">>), Str(<<"4", "2", "9", "4", "9", "6", "7", "2", "9", "5">>), Str(<<"4", "2", "9", "4", "9", "6", "7", "2", "9", "6">>) }
PTexts == { Str(<<"2">>), Str(<<"0">>), Str(<<"1">>), Str(<<"0", "2">>), Str(<<"2", "5", "5">>), Str(<<"2", "5", "6">>) }

\* Base64 texts for the binary fields: of the known-answer tests of the
\* source, and an empty one.
KeyIdTexts ==
    { Str(<<"H", "j", "5", "+", "d", "s", "K", "0">>), Str(<<"H", "j", "5", "+", "d", "s", "K", "0", "Z", "Q">>), Str(<<"H", "j", "5", "+", "d", "s", "K", "0", "Z", "Q", "A">>), Str(<<"H", "j", "5", "+", "d", "s", "K", "0", "Z">>),
      Str(<<"H", "j", "5", "+", "d", "s", "K", "0", "Z", "R">>), Str(<<"H", "j", "5", "+", "d", "s", "K", "0", "Z", "Q", "B">>), Str(<<"M", "w", "m", "c", "v", "5", "/", "a", "v", "k", "X", "J">>), << >> }
DataTexts ==
    { Str(<<"s", "R", "l", "H", "h", "R", "m", "K", "U", "G", "z", "d", "O", "m", "X", "n", "0", "1", "X", "m", "X", "y", "g", "d", "5", "K", "c">>),
      Str(<<"V", "r", "a", "i", "0", "M", "E", "0", "m", "7", "l", "o", "r", "f", "x", "f", "O", "C", "G", "3", "+", "6", "w", "e", "5", "N", "8", "9", "+", "2", "h", "X", "w", "k", "b", "v", "0", "C", "5", "S", "E", "C", "a", "b">>) }
SaltTexts ==
    { Str(<<"/", "L", "t", "F", "j", "H", "5", "r", "V", "L", "8">>), Str(<<"4", "f", "X", "X", "G", "0", "s", "p", "B", "9", "2", "W", "P", "B", "1", "N", "i", "t", "T", "8", "/", "O", "H", "0", "V", "K", "I">>),
      Str(<<"B", "w", "U", "g", "J", "H", "H", "Q", "a", "y", "n", "E", "+", "a", "4", "n", "Z", "r", "Y", "R", "z", "O", "l", "l", "G", "S", "j", "j", "x", "u", "x", "N", "X", "x", "y", "N", "R", "U", "t", "I", "6", "D", "l", "w", "/", "z", "l", "b", "t", "6", "P", "z", "O", "L", "8", "O", "n", "f", "q", "s", "6", "T", "c", "G">>),
      Str(<<"+", "y", "P", "b", "R", "i", "6", "h", "d", "w">>),
      Str(<<"S", "I", "Z", "z", "z", "P", "h", "Y", "C", "/", "C", "X", "O", "f", "6", "4", "v", "W", "G", "/", "I", "Z", "j", "O", "/", "a", "m", "l", "R", "g", "v", "K", "s", "c", "a", "R", "C", "Y", "w", "d", "g", "9", "R", "1", "b", "o", "F", "N", "/", "N", "j", "a", "C", "1", "V", "d", "X", "d", "c", "O", "t", "F", "x", "+", "0", "A">>) }
OutputTexts ==
    { Str(<<"E", "k", "C", "W", "X", "6", "p", "S", "T", "q", "W", "r", "u", "i", "R", "0">>), Str(<<"i", "P", "B", "V", "u", "O", "R", "E", "C", "m", "5", "b", "i", "U", "s", "j", "q", "3", "3", "h", "n", "9", "/", "7", "B", "K", "q", "y", "9", "a", "P", "W", "K", "h", "F", "f", "K", "2", "h", "a", "E", "s", "M">>),
      Str(<<"J", "4", "m", "o", "a", "2", "M", "M", "0", "/", "6", "u", "f", "3", "H", "b", "Y", "2", "T", "f", "5", "F", "u", "x", "8", "J", "I", "B", "T", "w", "I", "h", "m", "h", "x", "G", "R", "b", "s", "Y", "1", "4", "q", "h", "T", "l", "t", "Q", "t", "+", "V", "w", "3", "b", "7", "t", "c", "J", "N", "E", "b", "k", "8", "i", "u", "m", "8", "A", "Q", "f", "Z", "e", "D", "4", "t", "a", "b", "C", "n", "N", "q", "f", "k", "D", "1", "g">>),
      Str(<<"c", "+", "j", "b", "g", "T", "K", "0", "P", "T", "0", "e", "C", "M", "I">>),
      Str(<<"K", "t", "T", "P", "h", "i", "U", "l", "D", "b", "9", "8", "p", "s", "I", "i", "N", "x", "U", "S", "Z", "8", "G", "Y", "V", "E", "m", "1", "C", "s", "f", "E", "a", "L", "J", "r", "p", "p", "B", "e", "5", "p", "o", "D", "2", "/", "s", "Q", "O", "U", "u", "5", "m", "m", "o", "w", "S", "i", "Q", "U", "b", "H", "+", "Z", "K", "3", "P", "j", "F", "d", "Y", "3", "K", "U", "u", "f", "8", "3", "b", "T", "5", "X", "q", "T", "Z", "y", "0">>) }

\* A hash string from the texts of its parts.
ParamsText(mt, tt, pt) == LitEncM \o mt \o LitT \o tt \o LitP \o pt

\* The hash strings that vary the numbers: m with p, and t.
NumericTexts ==
    { ParamsText(mt, Str(<<"5", "0", "0", "0">>), pt) : mt \in MTexts, pt \in PTexts }
    \cup { ParamsText(Str(<<"1", "2", "0">>), tt, Str(<<"2">>)) : tt \in TTexts }

\* The tails after the parameters: none, a salt, a salt and an output.
TailTexts ==
    { << >> } \cup { LitDollar \o s : s \in SaltTexts }
              \cup { LitDollar \o Str(<<"/", "L", "t", "F", "j", "H", "5", "r", "V", "L", "8">>) \o LitDollar \o o :
                     o \in OutputTexts }
              \cup { LitDollar \o s \o LitDollar \o Str(<<"E", "k", "C", "W", "X", "6", "p", "S", "T", "q", "W", "r", "u", "i", "R", "0">>) :
                     s \in SaltTexts }

\* The tails that follow a key identifier or associated data.
ShortTailTexts ==
    { << >>, LitDollar \o Str(<<"/", "L", "t", "F", "j", "H", "5", "r", "V", "L", "8">>),
      LitDollar \o Str(<<"/", "L", "t", "F", "j", "H", "5", "r", "V", "L", "8">>) \o LitDollar \o Str(<<"E", "k", "C", "W", "X", "6", "p", "S", "T", "q", "W", "r", "u", "i", "R", "0">>) }

\* The hash strings that vary the binary fields.
BinaryTexts ==
    { ParamsText(Str(<<"1", "2", "0">>), Str(<<"5", "0", "0", "0">>), Str(<<"2">>)) \o tl : tl \in TailTexts }
    \cup { ParamsText(Str(<<"1", "2", "0">>), Str(<<"5", "0", "0", "0">>), Str(<<"2">>)) \o k \o d \o tl :
            k \in { << >> } \cup { LitKeyid \o x : x \in KeyIdTexts },
            d \in { << >> } \cup { LitData \o x : x \in DataTexts },
            tl \in ShortTailTexts }

\* The text that is changed in one place: it has every field.
BaseTexts ==
    { ParamsText(Str(<<"1", "2", "0">>), Str(<<"5", "0", "0", "0">>), Str(<<"2">>)) \o LitKeyid \o Str(<<"H", "j", "5", "+", "d", "s", "K", "0">>)
          \o LitData \o Str(<<"s", "R", "l", "H">>) \o LitDollar \o Str(<<"/", "L", "t", "F", "j", "H", "5", "r", "V", "L", "8">>)
          \o LitDollar \o Str(<<"E", "k", "C", "W", "X", "6", "p", "S", "T", "q", "W", "r", "u", "i", "R", "0">>) }

\* The bytes put in the place changed: a byte that is no ASCII character
\* first, then separators of the format and characters of fields.
ChangeBytes == <<255, Ord("$"), Ord("0"), Ord(","), Ord("A"), Ord("="), 128>>

\* The number of them used.
NumChangeBytes == 2

\* Text s with its character i replaced by b, without its character i, and
\* cut before its character i.
Replaced(s, i, b) == [s EXCEPT ![i] = b]
Removed(s, i) == SubSeq(s, 1, i - 1) \o SubSeq(s, i + 1, Len(s))
Cut(s, i) == SubSeq(s, 1, i - 1)

ChangesOf(s) ==
    UNION { { Replaced(s, i, ChangeBytes[j]) : j \in 1..NumChangeBytes }
            \cup { Removed(s, i), Cut(s, i) } : i \in 1..Len(s) }

ChangedTexts == UNION { ChangesOf(s) : s \in BaseTexts }

\* The input texts of the decoder.
Texts == NumericTexts \cup BinaryTexts \cup ChangedTexts

\* The texts decoded one after the other into the same structure.
ReuseTexts ==
    { ParamsText(Str(<<"1", "2", "0">>), Str(<<"5", "0", "0", "0">>), Str(<<"2">>)),
      ParamsText(Str(<<"2", "0", "4", "0">>), Str(<<"1">>), Str(<<"2", "5", "5">>)) \o LitKeyid \o Str(<<"H", "j", "5", "+", "d", "s", "K", "0", "Z", "Q", "A">>),
      ParamsText(Str(<<"1", "2", "0">>), Str(<<"5", "0", "0", "0">>), Str(<<"2">>)) \o LitKeyid \o Str(<<"H", "j", "5", "+", "d", "s", "K", "0">>)
          \o LitData \o Str(<<"s", "R", "l", "H", "h", "R", "m", "K", "U", "G", "z", "d", "O", "m", "X", "n", "0", "1", "X", "m", "X", "y", "g", "d", "5", "K", "c">>)
          \o LitDollar \o Str(<<"4", "f", "X", "X", "G", "0", "s", "p", "B", "9", "2", "W", "P", "B", "1", "N", "i", "t", "T", "8", "/", "O", "H", "0", "V", "K", "I">>)
          \o LitDollar \o Str(<<"i", "P", "B", "V", "u", "O", "R", "E", "C", "m", "5", "b", "i", "U", "s", "j", "q", "3", "3", "h", "n", "9", "/", "7", "B", "K", "q", "y", "9", "a", "P", "W", "K", "h", "F", "f", "K", "2", "h", "a", "E", "s", "M">>),
      ParamsText(Str(<<"1", "6">>), Str(<<"7">>), Str(<<"2">>)) \o LitDollar \o Str(<<"/", "L", "t", "F", "j", "H", "5", "r", "V", "L", "8">>),
      ParamsText(Str(<<"1", "2", "0">>), Str(<<"5", "0", "0", "0">>), Str(<<"2">>)) \o LitDollar \o Str(<<"/", "L", "t", "F", "j", "H", "5", "r", "V", "L", "8">>)
          \o LitDollar \o Str(<<"E", "k", "C", "W", "X", "6", "p", "S", "T", "q", "W", "r", "u", "i", "R", "0">>),
      ParamsText(Str(<<"1", "2", "0">>), Str(<<"0">>), Str(<<"2">>)),
      ParamsText(Str(<<"1", "2", "0">>), Str(<<"5", "0", "0", "0">>), Str(<<"2">>)) \o LitKeyid \o Str(<<"M", "w", "m", "c", "v", "5", "/", "a", "v", "k", "X", "J">>),
      ParamsText(Str(<<"9", "9">>), Str(<<"5", "0", "0", "0">>), Str(<<"2">>)) \o LitDollar \o Str(<<"4", "f", "X", "X", "G", "0", "s", "p", "B", "9", "2", "W", "P", "B", "1", "N", "i", "t", "T", "8", "/", "O", "H", "0", "V", "K", "I">>)
          \o LitDollar \o Str(<<"c", "+", "j", "b", "g", "T", "K", "0", "P", "T", "0", "e", "C", "M", "I">>) }

\* The byte sequences handed to to_base64: every length of a binary field.
ByteSeqs == { Bytes(k, n, 0) : k \in 0..(NumFills - 1), n \in 0..OutputSize }

\* A byte buffer of n bytes that was never assigned (shown as bytes 0xEE).
Unassigned(n) == [i \in 1..n |-> 238]

\* The sizes around the size l with which a buffer is passed.
SizesAround(l) == { n \in (l - MaxSlack)..(l + MaxSlack) : n >= 0 }

\* The bytes of the strings given to from_base64 one character at a time:
\* characters of the alphabet with the values 0, 4 and 63, and a byte that
\* is no ASCII character.
StreamBytes == {Ord("A"), Ord("E"), Ord("/"), 255}

\* The longest such string, and the largest buffer it is decoded into.
MaxSrcLen == 5
MaxCap == 3

\* The digits of the digit runs given to decode_decimal, the longest run
\* enumerated, and what follows a run.
RunDigits == {Ord("0"), Ord("1"), Ord("9")}
MaxDigits == 4
DigitRuns ==
    UNION { [1..n -> RunDigits] : n \in 0..MaxDigits }
    \cup MTexts \cup TTexts \cup PTexts
    \cup { Str(<<"4", "2", "9", "4", "9", "6", "7", "2", "9", "9">>), Str(<<"1", "8", "4", "4", "6", "7", "4", "4", "0", "7", "3", "7", "0", "9", "5", "5", "1", "6", "1", "5">>), Str(<<"1", "8", "4", "4", "6", "7", "4", "4", "0", "7", "3", "7", "0", "9", "5", "5", "1", "6", "1", "9">>),
           Str(<<"9", "9", "9", "9", "9", "9", "9", "9", "9", "9", "9", "9", "9", "9", "9", "9", "9", "9", "9", "9">>), Str(<<"1", "0", "0", "0", "0", "0", "0", "0", "0", "0", "0", "0", "0", "0", "0", "0", "0", "0", "0", "0", "0">>),
           Str(<<"0", "0", "0", "0", "0", "0", "0", "0", "0", "0", "0", "0", "0", "0", "0", "0", "0", "0", "0", "0", "0">>), Str(<<"0", "1", "8", "4", "4", "6", "7", "4", "4", "0", "7", "3", "7", "0", "9", "5", "5", "1", "6", "1", "6">>) }
RunEnds == { << >>, Str(<<",", "t", "=">>), <<255>> }
DecimalTexts == { d \o e : d \in DigitRuns, e \in RunEnds }

(***************************************************************************)
(* The state machine: a caller of the functions.                           *)
(***************************************************************************)

vars == <<char_signed, ulong_limbs, op, rec, kat_pp, kat_str, tmp, tmp_len, ret,
          tb, fb, fsrc, fcap, dd, chr>>

Init ==
    /\ char_signed \in BOOLEAN
    /\ ulong_limbs \in {2, 4}
    /\ op = "init"
    /\ kat_pp = Indeterminate(ulong_limbs)
    /\ rec = kat_pp
    /\ kat_str = << >>
    /\ tmp = << >>
    /\ tmp_len = 0
    /\ ret = 0
    /\ tb = [src |-> << >>, dst_len |-> 0, ret |-> 0, dst |-> << >>]
    /\ fb = from_base64_enter(<< >>, 0)
    /\ fsrc = << >>
    /\ fcap = 0
    /\ dd = [s |-> << >>, ret |-> FALSE, str |-> 0, v |-> UZero(ulong_limbs),
             wrap |-> FALSE]
    /\ chr = [arg |-> 0, res |-> 0]

\* The length of the hash string of the record r.
EncodedLen(r) == Len(argon2i_encode_string(DstSize, r).dst)

\* The buffer sizes with which the encoder is called for the record r.
EncodeSizes(r) == {0, DstSize} \cup SizesAround(EncodedLen(r) + 1)

\* The caller fills in a record.
SupplyRecord ==
    /\ op = "init"
    /\ op' = "supply"
    /\ rec' \in Records(ulong_limbs)
    /\ UNCHANGED <<char_signed, ulong_limbs, kat_pp, kat_str, tmp, tmp_len, ret,
                   tb, fb, fsrc, fcap, dd, chr>>

\* argon2i_encode_string(tmp, n, &pp) for one of the sizes n: the buffer
\* tmp, its size and the value returned.
Encode(n, pp) ==
    /\ LET r == argon2i_encode_string(n, pp)
       IN  /\ tmp' = r.dst
           /\ ret' = r.ret
    /\ tmp_len' = n

\* The record supplied is encoded.
EncodeRecord ==
    /\ op = "supply"
    /\ \E n \in EncodeSizes(rec) : Encode(n, rec)
    /\ op' = "encode"
    /\ UNCHANGED <<char_signed, ulong_limbs, rec, kat_pp, kat_str, tb, fb, fsrc, fcap, dd, chr>>

\* argon2i_decode_string(&kat_pp, s)
Decode(s) ==
    /\ LET r == argon2i_decode_string(kat_pp, s)
       IN  /\ kat_pp' = r.pp
           /\ ret' = r.ret
    /\ kat_str' = s
    /\ UNCHANGED <<char_signed, ulong_limbs, rec, tmp, tmp_len, tb, fb, fsrc,
                   fcap, dd, chr>>

\* The text just encoded is decoded, into a structure never assigned.
DecodeBack ==
    /\ op = "encode"
    /\ ret = 1
    /\ op' = "decode_back"
    /\ Decode(tmp)

\* A text is decoded into a structure never assigned.
DecodeText(s) ==
    /\ op = "init"
    /\ op' = "decode"
    /\ Decode(s)

\* The structure decoded from kat_str is encoded.
ReEncode ==
    /\ op = "decode"
    /\ ret = 1
    /\ \E n \in EncodeSizes(kat_pp) : Encode(n, kat_pp)
    /\ op' = "reencode"
    /\ UNCHANGED <<char_signed, ulong_limbs, rec, kat_pp, kat_str, tb, fb, fsrc, fcap, dd, chr>>

\* A text is decoded into the structure the last call left.
DecodeAgain(s) ==
    /\ op \in {"init", "decode_again"}
    /\ op' = "decode_again"
    /\ Decode(s)

\* to_base64(dst, n, b, Len(b)) for one of the sizes n.
ToBase64(b) ==
    /\ op = "init"
    /\ op' = "to_base64"
    /\ \E n \in {0, DstSize} \cup SizesAround(to_base64_olen(Len(b)) + 1) :
           LET r == to_base64(n, b)
           IN  tb' = [src |-> b, dst_len |-> n, ret |-> r.ret, dst |-> r.dst]
    /\ UNCHANGED <<char_signed, ulong_limbs, rec, kat_pp, kat_str, tmp, tmp_len, ret,
                   fb, fsrc, fcap, dd, chr>>

\* from_base64(dst, &cap, tb.dst) on the text to_base64 produced, for one
\* of the capacities cap.
FromBase64Back ==
    /\ op = "to_base64"
    /\ tb.ret # SizeError
    /\ op' = "from_base64_back"
    /\ fsrc' = tb.dst
    /\ \E cap \in {OutputSize} \cup SizesAround(Len(tb.src)) :
           /\ fcap' = cap
           /\ fb' = from_base64(Unassigned(cap), cap, tb.dst, 1)
    /\ UNCHANGED <<char_signed, ulong_limbs, rec, kat_pp, kat_str, tmp, tmp_len, ret,
                   tb, dd, chr>>

\* from_base64 is entered with a buffer of cap bytes; the string it reads
\* is chosen character by character as it runs.
FromBase64Enter(cap) ==
    /\ op = "init"
    /\ op' = "from_base64"
    /\ fsrc' = << >>
    /\ fcap' = cap
    /\ fb' = from_base64_enter(Unassigned(cap), cap)
    /\ UNCHANGED <<char_signed, ulong_limbs, rec, kat_pp, kat_str, tmp, tmp_len, ret,
                   tb, dd, chr>>

\* One iteration of its loop: *src is the byte b, the terminating zero
\* when b is 0.
FromBase64Step(b) ==
    /\ op = "from_base64"
    /\ fb.pc = "loop"
    /\ b = 0 \/ Len(fsrc) < MaxSrcLen
    /\ fsrc' = IF b = 0 THEN fsrc ELSE Append(fsrc, b)
    /\ fb' = from_base64_step(fb, b)
    /\ UNCHANGED <<char_signed, ulong_limbs, op, rec, kat_pp, kat_str, tmp, tmp_len,
                   ret, tb, fcap, dd, chr>>

\* After its loop.
FromBase64Finish ==
    /\ op = "from_base64"
    /\ fb.pc = "break"
    /\ fb' = from_base64_finish(fb)
    /\ UNCHANGED <<char_signed, ulong_limbs, op, rec, kat_pp, kat_str, tmp, tmp_len,
                   ret, tb, fsrc, fcap, dd, chr>>

\* decode_decimal(s, &v)
CallDecodeDecimal(s) ==
    /\ op = "init"
    /\ op' = "decode_decimal"
    /\ LET r == decode_decimal(s, 1, ulong_limbs)
       IN  dd' = [s |-> s, ret |-> r.ret, str |-> r.str, v |-> r.v,
                  wrap |-> r.wrap]
    /\ UNCHANGED <<char_signed, ulong_limbs, rec, kat_pp, kat_str, tmp, tmp_len, ret,
                   tb, fb, fsrc, fcap, chr>>

\* d = b64_char_to_byte(*src) where src points at the byte b.
CallCharToByte(b) ==
    /\ op = "init"
    /\ op' = "b64_char_to_byte"
    /\ chr' = [arg |-> CharToInt(b), res |-> CharToByteTable[CharToInt(b)]]
    /\ UNCHANGED <<char_signed, ulong_limbs, rec, kat_pp, kat_str, tmp, tmp_len, ret,
                   tb, fb, fsrc, fcap, dd>>

\* b64_byte_to_char(x) for a 6-bit value x.
CallByteToChar(x) ==
    /\ op = "init"
    /\ op' = "b64_byte_to_char"
    /\ chr' = [arg |-> x, res |-> ByteToCharTable[x]]
    /\ UNCHANGED <<char_signed, ulong_limbs, rec, kat_pp, kat_str, tmp, tmp_len, ret,
                   tb, fb, fsrc, fcap, dd>>

(***************************************************************************)
(* The specifications.                                                     *)
(***************************************************************************)

\* The encoder and the decoder, as the test program calls them.
Next ==
    \/ SupplyRecord
    \/ EncodeRecord
    \/ DecodeBack
    \/ \E s \in Texts : DecodeText(s)
    \/ ReEncode

Spec == Init /\ [][Next]_vars

\* The decoder called again and again on the same structure.
NextReuse == \E s \in ReuseTexts : DecodeAgain(s)

SpecReuse == Init /\ [][NextReuse]_vars

\* The Base64 functions, the character mappings they use, and the decoder
\* that calls from_base64.
NextBase64 ==
    \/ \E b \in ByteSeqs : ToBase64(b)
    \/ FromBase64Back
    \/ \E cap \in 0..MaxCap : FromBase64Enter(cap)
    \/ \E b \in StreamBytes \cup {0} : FromBase64Step(b)
    \/ FromBase64Finish
    \/ \E s \in Texts : DecodeText(s)
    \/ \E b \in 0..255 : CallCharToByte(b)
    \/ \E x \in 0..63 : CallByteToChar(x)

SpecBase64 == Init /\ [][NextBase64]_vars

\* The decimal parser.
NextDecimal == \E s \in DecimalTexts : CallDecodeDecimal(s)

SpecDecimal == Init /\ [][NextDecimal]_vars

(***************************************************************************)
(* The properties.  What they say of numbers, texts and records is stated  *)
(* here on its own terms: the data model of a record, the Base64 alphabet, *)
(* digit runs compared as texts.                                           *)
(***************************************************************************)

\* x = 0, x <= 2^32 - 1 and x <= 255 for an unsigned long x.
IsZero(x) == \A i \in 1..Len(x) : x[i] = 0
Fits32(x) == \A i \in 3..Len(x) : x[i] = 0
Fits8(x) == x[1] <= 255 /\ \A i \in 2..Len(x) : x[i] = 0

\* The data model of a record.
CostsValid(r) ==
    /\ ~IsZero(r.m) /\ Fits32(r.m)
    /\ ~IsZero(r.t) /\ Fits32(r.t)
    /\ ~IsZero(r.p) /\ Fits8(r.p)
    /\ (r.m[2] > 0 \/ r.m[1] >= 8 * r.p[1])

LengthsValid(r) ==
    /\ r.key_id_len \in 0..KeyIdSize
    /\ r.associated_data_len \in 0..AssociatedDataSize
    /\ r.salt_len \in {0} \cup (SaltMin..SaltSize)
    /\ r.output_len \in {0} \cup (OutputMin..OutputSize)
    /\ (r.output_len > 0 => r.salt_len > 0)

DataModel(r) == CostsValid(r) /\ LengthsValid(r)

\* What a record says: the costs, the lengths, and the first len bytes of
\* each binary field.
Observable(r) ==
    [m |-> r.m, t |-> r.t, p |-> r.p,
     key_id |-> SubSeq(r.key_id, 1, r.key_id_len),
     associated_data |-> SubSeq(r.associated_data, 1, r.associated_data_len),
     salt |-> SubSeq(r.salt, 1, r.salt_len),
     output |-> SubSeq(r.output, 1, r.output_len)]

\* The number of '$' in a text, and whether the text lit occurs in s.
Dollars(s) == Cardinality({i \in 1..Len(s) : s[i] = Ord("$")})
Occurs(s, lit) ==
    \E i \in 1..(Len(s) - Len(lit) + 1) : SubSeq(s, i, i + Len(lit) - 1) = lit

\* The length of the Base64 text of n bytes, and of the hash string of a
\* record.
Base64Length(n) == (4 * n + 2) \div 3
TextLength(r) ==
    Len(LitEncM) + Len(sprintf_lu(r.m)) + Len(LitT) + Len(sprintf_lu(r.t))
    + Len(LitP) + Len(sprintf_lu(r.p))
    + (IF r.key_id_len > 0
       THEN Len(LitKeyid) + Base64Length(r.key_id_len) ELSE 0)
    + (IF r.associated_data_len > 0
       THEN Len(LitData) + Base64Length(r.associated_data_len) ELSE 0)
    + (IF r.salt_len > 0 THEN 1 + Base64Length(r.salt_len) ELSE 0)
    + (IF r.salt_len > 0 /\ r.output_len > 0
       THEN 1 + Base64Length(r.output_len) ELSE 0)

\* The Base64 alphabet, the place of a character in it, and the length of
\* the run of its characters that a string starts with.
Alphabet ==
    Str(<<"A", "B", "C", "D", "E", "F", "G", "H", "I", "J", "K", "L", "M", "N", "O", "P", "Q", "R", "S", "T", "U", "V", "W", "X", "Y", "Z", "a", "b", "c", "d", "e", "f", "g", "h", "i", "j", "k", "l", "m", "n", "o", "p", "q", "r", "s", "t", "u", "v", "w", "x", "y", "z", "0", "1", "2", "3", "4", "5", "6", "7", "8", "9", "+", "/">>)
InAlphabet(c) == \E i \in 1..Len(Alphabet) : Alphabet[i] = c
IndexOf(c) == (CHOOSE i \in 1..Len(Alphabet) : Alphabet[i] = c) - 1
AlphabetRun(s) ==
    CHOOSE n \in 0..Len(s) :
        /\ \A i \in 1..n : InAlphabet(s[i])
        /\ n = Len(s) \/ ~InAlphabet(s[n + 1])

\* The bits left by the run s starts with are 6 bits, or 4 or 2 bits that
\* are not all zero.
LeftoverBad(s) ==
    \/ AlphabetRun(s) % 4 = 1
    \/ AlphabetRun(s) % 4 = 2 /\ IndexOf(s[AlphabetRun(s)]) % 16 # 0
    \/ AlphabetRun(s) % 4 = 3 /\ IndexOf(s[AlphabetRun(s)]) % 4 # 0

\* The length of the run of digits that a string starts with, the decimal
\* text of ULONG_MAX, and the comparison of two digit runs without leading
\* zero by their values.
IsDigit(c) == c \in Ord("0")..Ord("9")
DigitRun(s) ==
    CHOOSE n \in 0..Len(s) :
        /\ \A i \in 1..n : IsDigit(s[i])
        /\ n = Len(s) \/ ~IsDigit(s[n + 1])
MaxText(w) ==
    IF w = 2 THEN Str(<<"4", "2", "9", "4", "9", "6", "7", "2", "9", "5">>) ELSE Str(<<"1", "8", "4", "4", "6", "7", "4", "4", "0", "7", "3", "7", "0", "9", "5", "5", "1", "6", "1", "5">>)
Exceeds(run, max) ==
    \/ Len(run) > Len(max)
    \/ /\ Len(run) = Len(max)
       /\ \E i \in 1..Len(run) :
              run[i] > max[i] /\ \A j \in 1..(i - 1) : run[j] = max[j]

C2_TextRoundTrip ==
    (op = "reencode" /\ tmp_len = DstSize) => (ret = 1 /\ tmp = kat_str)

\* An accepted text with an empty key identifier is written back without
\* it.
C2_Witness ==
    /\ op = "reencode" /\ tmp_len = DstSize /\ ret = 1
    /\ kat_str = ParamsText(Str(<<"1", "2", "0">>), Str(<<"5", "0", "0", "0">>), Str(<<"2">>)) \o LitKeyid
    /\ tmp = ParamsText(Str(<<"1", "2", "0">>), Str(<<"5", "0", "0", "0">>), Str(<<"2">>))

\* The texts of the parameters that the format excludes.
RejectedParams ==
    { ParamsText(Str(<<"1", "5">>), Str(<<"5", "0", "0", "0">>), Str(<<"2">>)), ParamsText(Str(<<"1", "2", "0">>), Str(<<"5", "0", "0", "0">>), Str(<<"0">>)),
      ParamsText(Str(<<"1", "2", "0">>), Str(<<"5", "0", "0", "0">>), Str(<<"2", "5", "6">>)), ParamsText(Str(<<"1", "2", "0">>), Str(<<"0">>), Str(<<"2">>)),
      ParamsText(Str(<<"1", "2", "0">>), Str(<<"4", "2", "9", "4", "9", "6", "7", "2", "9", "6">>), Str(<<"2">>)) }

\* C3: every record the decoder returns with success is of the data model,
\* and texts whose parameters are out of it are rejected.
C3_AcceptedRecordsValid ==
    /\ (op \in {"decode", "decode_back"} /\ ret = 1) => DataModel(kat_pp)
    /\ (op = "decode" /\ kat_str \in RejectedParams) => ret = 0

\* A text with every field was accepted.
C3_Witness ==
    /\ op = "decode" /\ ret = 1
    /\ kat_pp.key_id_len > 0 /\ kat_pp.associated_data_len > 0
    /\ kat_pp.salt_len > 0 /\ kat_pp.output_len > 0

\* C4: the boundary capacity.  With L the length of the hash string of the
\* record, the encoder returns 1 exactly when dst_len >= L + 1, and then
\* the text it wrote has L characters.
C4_BoundaryCapacity ==
    /\ op = "encode" =>
           /\ ret = 1 <=> tmp_len >= TextLength(rec) + 1
           /\ ret = 1 => Len(tmp) = TextLength(rec)
    /\ op = "reencode" =>
           /\ ret = 1 <=> tmp_len >= TextLength(kat_pp) + 1
           /\ ret = 1 => Len(tmp) = TextLength(kat_pp)

\* A record with every field was encoded into a buffer of just L + 1 bytes.
C4_Witness ==
    /\ op = "encode" /\ ret = 1
    /\ tmp_len = Len(tmp) + 1
    /\ rec.key_id_len > 0 /\ rec.associated_data_len > 0
    /\ rec.salt_len > 0 /\ rec.output_len > 0

\* C5: the decoder keeps nothing from one call to the next.  The value
\* returned and, on success, the costs, lengths and field bytes are those
\* of the same text decoded into a structure never used, and a field that
\* the text does not have ends with length 0.
C5_Stateless ==
    op = "decode_again" =>
        /\ ret = argon2i_decode_string(Indeterminate(ulong_limbs), kat_str).ret
        /\ ret = 1 =>
               Observable(kat_pp) = Observable(
                   argon2i_decode_string(Indeterminate(ulong_limbs), kat_str).pp)
        /\ ~Occurs(kat_str, LitKeyid) => kat_pp.key_id_len = 0
        /\ ~Occurs(kat_str, LitData) => kat_pp.associated_data_len = 0
        /\ Dollars(kat_str) < 3 => kat_pp.salt_len = 0
        /\ Dollars(kat_str) < 4 => kat_pp.output_len = 0

\* A text without optional field was accepted into a structure whose
\* buffers hold the bytes of earlier calls.
C5_Witness ==
    /\ op = "decode_again" /\ ret = 1
    /\ Dollars(kat_str) = 2 /\ ~Occurs(kat_str, LitKeyid)
    /\ kat_pp.key_id # Indeterminate(ulong_limbs).key_id
    /\ kat_pp.output # Indeterminate(ulong_limbs).output

\* C6: the Base64 round trip.  to_base64 succeeds into a buffer that is
\* large enough, and from_base64 of its text, with a capacity of the
\* number of bytes or more, succeeds, gives back the bytes and their
\* number, and returns the position of the terminating zero.
C6_Base64RoundTrip ==
    /\ (op = "to_base64" /\ tb.dst_len = DstSize) => tb.ret # SizeError
    /\ (op = "from_base64_back" /\ fcap >= Len(tb.src)) =>
           /\ fb.pc = "ok"
           /\ fb.dst_len = Len(tb.src)
           /\ SubSeq(fb.dst, 1, fb.dst_len) = tb.src
           /\ fb.src = Len(fsrc)

\* The longest byte sequence came back, from a buffer of just its length.
C6_Witness ==
    /\ op = "from_base64_back" /\ fb.pc = "ok"
    /\ Len(tb.src) = OutputSize /\ fcap = OutputSize
    /\ tb.src[1] = 255

\* The digit runs of the examples.
AcceptedRuns == { Str(<<"0">>) }
RejectedRuns == { Str(<<"0", "1", "2", "0">>), << >> }

\* C7: the decimal parser.  It returns NULL exactly when the run of digits
\* at the start is empty, or starts with '0' and is longer than one digit,
\* or is of a value above ULONG_MAX; otherwise it writes the value of the
\* run and returns the position after it.  No operation on the accumulator
\* wraps around.
C7_DecimalStrict ==
    op = "decode_decimal" =>
        /\ ~dd.wrap
        /\ IF \/ DigitRun(dd.s) = 0
              \/ dd.s[1] = Ord("0") /\ DigitRun(dd.s) > 1
              \/ Exceeds(SubSeq(dd.s, 1, DigitRun(dd.s)), MaxText(ulong_limbs))
           THEN ~dd.ret
           ELSE /\ dd.ret
                /\ dd.str = DigitRun(dd.s)
                /\ sprintf_lu(dd.v) = SubSeq(dd.s, 1, DigitRun(dd.s))
        /\ dd.s \in AcceptedRuns => dd.ret
        /\ dd.s \in RejectedRuns => ~dd.ret

\* The text of ULONG_MAX, followed by a character, was accepted.
C7_Witness ==
    /\ op = "decode_decimal" /\ dd.ret
    /\ dd.v = UMax(ulong_limbs)
    /\ dd.str < Len(dd.s)

\* The hash strings with a key identifier of which bits are left.
LeftoverKeyIds ==
    { ParamsText(Str(<<"1", "2", "0">>), Str(<<"5", "0", "0", "0">>), Str(<<"2">>)) \o LitKeyid \o k :
      k \in { Str(<<"H", "j", "5", "+", "d", "s", "K", "0", "Z">>), Str(<<"H", "j", "5", "+", "d", "s", "K", "0", "Z", "R">>), Str(<<"H", "j", "5", "+", "d", "s", "K", "0", "Z", "Q", "B">>) } }

\* C8: from_base64 returns NULL, and leaves *dst_len as it was, for every
\* string whose run of alphabet characters leaves 6 bits, or 4 or 2 bits
\* that are not all zero; and the decoder rejects the hash strings with
\* such a key identifier.
C8_LeftoverRejected ==
    /\ (op = "from_base64" /\ fb.pc \in {"ok", "null"} /\ LeftoverBad(fsrc)) =>
           (fb.pc = "null" /\ fb.dst_len = fcap)
    /\ (op = "decode" /\ kat_str \in LeftoverKeyIds) => ret = 0

\* Where char is signed, from_base64 accepted a string with a run of one
\* alphabet character, and decoded three bytes from it.
C8_Witness ==
    /\ op = "from_base64" /\ fb.pc = "ok" /\ char_signed
    /\ fsrc = <<Ord("A"), 255, 255, 255>>
    /\ fb.dst_len = 3

\* C9: b64_char_to_byte gives the place in the alphabet of a character of
\* the alphabet, and 0xFF for every other value of a char; so from_base64
\* consumes the run of alphabet characters and no more; and
\* b64_char_to_byte gives back the argument of b64_byte_to_char.
C9_CharacterMapping ==
    /\ op = "b64_char_to_byte" =>
           chr.res = IF InAlphabet(chr.arg) THEN IndexOf(chr.arg) ELSE 255
    /\ op = "b64_byte_to_char" =>
           InAlphabet(chr.res) /\ IndexOf(chr.res) = chr.arg
                               /\ CharToByteTable[chr.res] = chr.arg
    /\ (op = "from_base64" /\ fb.pc \in {"break", "ok"}) =>
           fb.src = AlphabetRun(fsrc)

\* Where char is signed, the byte 0xFF is the value -1, for which
\* b64_char_to_byte returned 63.
C9_Witness ==
    /\ op = "b64_char_to_byte"
    /\ chr.arg = -1 /\ chr.res = 63

\* The hash strings with a field longer than its capacity.
OverlongTexts ==
    { ParamsText(Str(<<"1", "2", "0">>), Str(<<"5", "0", "0", "0">>), Str(<<"2">>)) \o LitKeyid \o Str(<<"M", "w", "m", "c", "v", "5", "/", "a", "v", "k", "X", "J">>),
      ParamsText(Str(<<"1", "2", "0">>), Str(<<"5", "0", "0", "0">>), Str(<<"2">>)) \o LitData
          \o Str(<<"V", "r", "a", "i", "0", "M", "E", "0", "m", "7", "l", "o", "r", "f", "x", "f", "O", "C", "G", "3", "+", "6", "w", "e", "5", "N", "8", "9", "+", "2", "h", "X", "w", "k", "b", "v", "0", "C", "5", "S", "E", "C", "a", "b">>),
      ParamsText(Str(<<"1", "2", "0">>), Str(<<"5", "0", "0", "0">>), Str(<<"2">>)) \o LitDollar
          \o Str(<<"S", "I", "Z", "z", "z", "P", "h", "Y", "C", "/", "C", "X", "O", "f", "6", "4", "v", "W", "G", "/", "I", "Z", "j", "O", "/", "a", "m", "l", "R", "g", "v", "K", "s", "c", "a", "R", "C", "Y", "w", "d", "g", "9", "R", "1", "b", "o", "F", "N", "/", "N", "j", "a", "C", "1", "V", "d", "X", "d", "c", "O", "t", "F", "x", "+", "0", "A">>),
      ParamsText(Str(<<"1", "2", "0">>), Str(<<"5", "0", "0", "0">>), Str(<<"2">>)) \o LitDollar \o Str(<<"/", "L", "t", "F", "j", "H", "5", "r", "V", "L", "8">>) \o LitDollar
          \o Str(<<"K", "t", "T", "P", "h", "i", "U", "l", "D", "b", "9", "8", "p", "s", "I", "i", "N", "x", "U", "S", "Z", "8", "G", "Y", "V", "E", "m", "1", "C", "s", "f", "E", "a", "L", "J", "r", "p", "p", "B", "e", "5", "p", "o", "D", "2", "/", "s", "Q", "O", "U", "u", "5", "m", "m", "o", "w", "S", "i", "Q", "U", "b", "H", "+", "Z", "K", "3", "P", "j", "F", "d", "Y", "3", "K", "U", "u", "f", "8", "3", "b", "T", "5", "X", "q", "T", "Z", "y", "0">>) }

\* C10: the capacity is a hard bound.  While from_base64 runs and after
\* it, the bytes stored are at most the capacity it was called with and
\* none is stored past the buffer, and it fails when the run of alphabet
\* characters holds more bytes than that; so after any call of the decoder
\* no field holds bytes past its buffer and no length exceeds its capacity,
\* and a hash string with a field longer than its capacity is rejected.
C10_CapacityBound ==
    /\ op \in {"from_base64", "from_base64_back"} =>
           /\ fb.buf <= fcap
           /\ Len(fb.dst) = fcap
           /\ fb.pc = "ok" => fb.dst_len <= fcap
    /\ (op = "from_base64" /\ fb.pc \in {"ok", "null"}
            /\ (6 * AlphabetRun(fsrc)) \div 8 > fcap) => fb.pc = "null"
    /\ op = "decode" =>
           /\ Len(kat_pp.key_id) = KeyIdSize
           /\ Len(kat_pp.associated_data) = AssociatedDataSize
           /\ Len(kat_pp.salt) = SaltSize
           /\ Len(kat_pp.output) = OutputSize
           /\ kat_pp.key_id_len <= KeyIdSize
           /\ kat_pp.associated_data_len <= AssociatedDataSize
           /\ kat_pp.salt_len <= SaltSize
           /\ kat_pp.output_len <= OutputSize
    /\ (op = "decode" /\ kat_str \in OverlongTexts) => ret = 0

\* from_base64 filled a buffer and failed at the byte after it.
C10_Witness ==
    /\ op = "from_base64" /\ fb.pc = "null"
    /\ fcap > 1 /\ fb.buf = fcap /\ fb.len = fcap + 1

====
